---- MODULE Spec2Model ----
(***************************************************************************)
(* Model of the EFS provisioner's volume directory lifecycle:              *)
(*   aws/efs/cmd/efs-provisioner/efs-provisioner.go   (Provision, Delete)  *)
(*   aws/efs/cmd/efs-provisioner/filesystemreclaimer.go (Reclaim, checks)  *)
(*   the volume metadata file (volumeMetadata, read/write)                 *)
(*                                                                         *)
(* A Go string is a sequence of atoms.  An atom is a run of characters     *)
(* that the model never splits ("/", "-", ":", "export", "b", ...).        *)
(* String concatenation is \o, so prefix tests, replacement and path       *)
(* cleaning are computed on the text as the Go code computes them.         *)
(***************************************************************************)
EXTENDS Integers, Sequences, FiniteSets, TLC

VARIABLES fs, gidTable, usedIds, restarts, last, issued, inflight

vars == <<fs, gidTable, usedIds, restarts, last, issued, inflight>>

(***************************************************************************)
(* Bounds of the model.                                                    *)
(***************************************************************************)
MaxDirs == 2

NumGids == 2

MaxRestarts == 1

MaxEntries == 3

MaxInflight == 2

(***************************************************************************)
(* strings and path packages, on sequences of atoms.                       *)
(***************************************************************************)
HasPrefix(s, prefix) ==
    /\ Len(prefix) <= Len(s)
    /\ SubSeq(s, 1, Len(prefix)) = prefix

\* strings.Index: position of the first occurrence of sub in s, 0 if none.
Index(s, sub) ==
    LET hits == {i \in 1..(Len(s) - Len(sub) + 1) : SubSeq(s, i, i + Len(sub) - 1) = sub}
    IN IF hits = {} THEN 0 ELSE CHOOSE i \in hits : \A j \in hits : i <= j

\* strings.Replace(s, old, "", 1)
ReplaceFirst(s, old) ==
    IF old = <<>> \/ Index(s, old) = 0 THEN s
    ELSE LET i == Index(s, old)
         IN SubSeq(s, 1, i - 1) \o SubSeq(s, i + Len(old), Len(s))

RECURSIVE Split(_, _, _)
\* the components of s between "/" atoms (empty components included)
Split(s, cur, acc) ==
    IF s = <<>> THEN Append(acc, cur)
    ELSE IF Head(s) = "/" THEN Split(Tail(s), <<>>, Append(acc, cur))
    ELSE Split(Tail(s), Append(cur, Head(s)), acc)

RECURSIVE Resolve(_, _, _)
\* path.Clean's rules 2-4: drop "." and empty components, resolve ".."
Resolve(comps, out, rooted) ==
    IF comps = <<>> THEN out
    ELSE LET c == Head(comps)
             rest == Tail(comps)
         IN IF c = <<>> \/ c = <<".">> THEN Resolve(rest, out, rooted)
            ELSE IF c = <<"..">>
                 THEN IF out # <<>> /\ out[Len(out)] # <<"..">>
                      THEN Resolve(rest, SubSeq(out, 1, Len(out) - 1), rooted)
                      ELSE IF rooted THEN Resolve(rest, out, rooted)
                      ELSE Resolve(rest, Append(out, c), rooted)
                 ELSE Resolve(rest, Append(out, c), rooted)

RECURSIVE JoinComps(_)
JoinComps(comps) ==
    IF comps = <<>> THEN <<>>
    ELSE IF Len(comps) = 1 THEN comps[1]
    ELSE comps[1] \o <<"/">> \o JoinComps(Tail(comps))

\* path.Clean
Clean(s) ==
    IF s = <<>> THEN <<".">>
    ELSE LET rooted == s[1] = "/"
             body == JoinComps(Resolve(Split(s, <<>>, <<>>), <<>>, rooted))
         IN IF rooted THEN <<"/">> \o body
            ELSE IF body = <<>> THEN <<".">> ELSE body

\* path.Join(a, b): empty elements are ignored, the result is cleaned
Join(a, b) ==
    IF a = <<>> /\ b = <<>> THEN <<>>
    ELSE IF a = <<>> THEN Clean(b)
    ELSE IF b = <<>> THEN Clean(a)
    ELSE Clean(a \o <<"/">> \o b)

\* p is path q or lies below it (both cleaned, rooted paths)
IsUnder(p, q) ==
    \/ p = q
    \/ q = <<"/">>
    \/ HasPrefix(p, q \o <<"/">>)

(***************************************************************************)
(* strconv, on digit atoms.                                                *)
(***************************************************************************)
Digits == <<"0", "1", "2", "3", "4", "5", "6", "7", "8", "9">>

DigitVal(d) == (CHOOSE i \in 1..10 : Digits[i] = d) - 1

IsDigit(d) == \E i \in 1..10 : Digits[i] = d

RECURSIVE ItoaNat(_)
ItoaNat(n) == IF n < 10 THEN <<Digits[n + 1]>> ELSE ItoaNat(n \div 10) \o <<Digits[(n % 10) + 1]>>

\* strconv.Itoa
Itoa(n) == IF n < 0 THEN <<"-">> \o ItoaNat(0 - n) ELSE ItoaNat(n)

RECURSIVE DigitsVal(_, _)
DigitsVal(s, acc) == IF s = <<>> THEN acc ELSE DigitsVal(Tail(s), acc * 10 + DigitVal(Head(s)))

AllDigits(s) == s # <<>> /\ \A i \in 1..Len(s) : IsDigit(s[i])

\* strconv.Atoi: optional sign, then decimal digits
Atoi(s) ==
    IF s # <<>> /\ s[1] \in {"-", "+"}
    THEN IF AllDigits(Tail(s))
         THEN [ok |-> TRUE, val |-> IF s[1] = "-" THEN 0 - DigitsVal(Tail(s), 0) ELSE DigitsVal(Tail(s), 0)]
         ELSE [ok |-> FALSE, val |-> 0]
    ELSE IF AllDigits(s) THEN [ok |-> TRUE, val |-> DigitsVal(s, 0)]
    ELSE [ok |-> FALSE, val |-> 0]

\* strconv.ParseBool
ParseBool(v) ==
    IF Len(v) = 1 /\ v[1] \in {"1", "t", "T", "TRUE", "true", "True"}
    THEN [ok |-> TRUE, val |-> TRUE]
    ELSE IF Len(v) = 1 /\ v[1] \in {"0", "f", "F", "FALSE", "false", "False"}
    THEN [ok |-> TRUE, val |-> FALSE]
    ELSE [ok |-> FALSE, val |-> FALSE]


(***************************************************************************)
(* Process configuration (NewEFSProvisioner) and request inputs.           *)
(***************************************************************************)
dnsName == <<"fs">>

source == <<"fs", ":", "/", "export">>

mountpoint == <<"/", "mnt">>

metadataFile == <<".kube-efs-provisioner-metadata">>

\* gid *int = nil
NoGid == -1

\* the group a directory gets from mkdir when no chgrp follows
ProcessGid == 0

GidMin == 10

GidMax == GidMin + NumGids - 1

AbsoluteGidMax == 2147483647

\* options.Parameters: a map whose keys may be absent
NoParameters == [k \in {} |-> <<>>]

ReuseParameters == [k \in {"reuseVolumes"} |-> <<"true">>]

Options(name, ns, class, pvName, params) ==
    [PVCName |-> name, PVCNamespace |-> ns, Class |-> class, PVName |-> pvName,
     Parameters |-> params]

\* controller.VolumeOptions, the fields Provision reads.  Requests without
\* reuseVolumes name their directory after the claim and the volume
\* identifier, requests with it after the claim and its namespace.
EphemeralOptions ==
    {Options(<<"b">>, <<"n">>, "c1", <<"pv1">>, NoParameters),
     Options(<<"b">>, <<"n">>, "c1", <<"pv2">>, NoParameters)}

ReuseOptions ==
    {Options(<<"b">>, <<"pv1">>, "c1", <<"pv2">>, ReuseParameters),
     Options(<<"b">>, <<"n">>, "c1", <<"pv2">>, ReuseParameters),
     Options(<<"b">>, <<"n">>, "c2", <<"pv2">>,
             [k \in {"reuseVolumes", "gidAllocate"} |->
                 IF k = "reuseVolumes" THEN <<"true">> ELSE <<"false">>]),
     Options(<<"b">>, <<"n">>, "c1", <<"pv2">>,
             [k \in {"reuseVolumes", "volumePrefix", "gidAllocate"} |->
                 IF k = "reuseVolumes" THEN <<"true">>
                 ELSE IF k = "volumePrefix" THEN <<"a">> ELSE <<"false">>]),
     Options(<<"a", "-", "b">>, <<"n">>, "c1", <<"pv2">>, ReuseParameters)}

InvalidOptions ==
    {Options(<<"b">>, <<"n">>, "c1", <<"pv2">>, [k \in {"reuseVolumes"} |-> <<"maybe">>]),
     Options(<<"b">>, <<"n">>, "c1", <<"pv2">>, [k \in {"gidAllocate"} |-> <<"maybe">>])}

VolumeOptions == EphemeralOptions \cup ReuseOptions \cup InvalidOptions

Classes == {"c1", "c2"}

\* strings.ToLower on the parameter keys
ToLower(k) ==
    IF k = "gidAllocate" THEN "gidallocate"
    ELSE IF k = "reuseVolumes" THEN "reusevolumes"
    ELSE IF k = "volumePrefix" THEN "volumeprefix"
    ELSE k

(***************************************************************************)
(* Volume metadata file.                                                   *)
(***************************************************************************)
NoMd == [kind |-> "absent"]

CorruptMd == [kind |-> "corrupt"]

volumeMetadata(gidstr, pvcName, pvcNamespace, class) ==
    [kind |-> "md", GID |-> gidstr, PVCName |-> pvcName,
     PVCNamespace |-> pvcNamespace, StorageClassName |-> class]

getMetaDataPath(dir) == Join(dir, metadataFile)

\* strconv.ParseUint(v.GID, 10, 32): no sign, at most 32 bits; 0 on error.
\* Texts of up to nine digits are parsed exactly (all of them fit 32 bits);
\* the model reads no longer ones.
GidAsUInt(md) ==
    IF AllDigits(md.GID) /\ Len(md.GID) <= 9
    THEN [ok |-> TRUE, val |-> DigitsVal(md.GID, 0)]
    ELSE [ok |-> FALSE, val |-> 0]

\* a reader that hands back an empty structure instead of nil for an absent file
readVolumeMetadataZeroValue(fsv, dir, fault) ==
    IF fault = "readmd" THEN [md |-> NoMd, err |-> "ReadMetadataError"]
    ELSE IF fsv[dir].md = NoMd
         THEN [md |-> volumeMetadata(<<>>, <<>>, <<>>, ""), err |-> ""]
    ELSE IF fsv[dir].md = CorruptMd THEN [md |-> NoMd, err |-> "ReadMetadataError"]
    ELSE [md |-> fsv[dir].md, err |-> ""]

\* readVolumeMetadata: (nil, nil) when the file is absent, an error when it
\* cannot be read or parsed
readVolumeMetadata(fsv, dir, fault) ==
    IF fault = "readmd" THEN [md |-> NoMd, err |-> "ReadMetadataError"]
    ELSE IF fsv[dir].md = NoMd THEN [md |-> NoMd, err |-> ""]
    ELSE IF fsv[dir].md = CorruptMd THEN [md |-> NoMd, err |-> "ReadMetadataError"]
    ELSE [md |-> fsv[dir].md, err |-> ""]

\* writeVolumeMetadata: the file is written unless WriteFile fails
writeVolumeMetadata(fsv, dir, md, fault) ==
    IF fault = "writemd" THEN [fs |-> fsv, err |-> "WriteMetadataError"]
    ELSE [fs |-> [fsv EXCEPT ![dir].md = md], err |-> ""]

(***************************************************************************)
(* The local file system: a function from directory path to the            *)
(* directory's group, mode and metadata file.  volume and reuse are        *)
(* history fields: the volume published by the request that last set the   *)
(* directory's group, and whether that request was in reuse mode.          *)
(***************************************************************************)
NoVolume == [server |-> <<>>, path |-> <<>>, class |-> "", gid |-> NoGid]

NewDir(perm) ==
    [gid |-> ProcessGid, mode |-> perm, md |-> NoMd, volume |-> NoVolume, reuse |-> FALSE]

\* os.MkdirAll: nothing changes when the directory exists; a new directory
\* gets perm narrowed by the process's umask
MkdirAll(fsv, p, perm) ==
    IF p \in DOMAIN fsv THEN fsv
    ELSE [q \in DOMAIN fsv \cup {p} |->
            IF q = p THEN NewDir(<<perm, "umask">>) ELSE fsv[q]]

Chmod(fsv, p, perm) == [fsv EXCEPT ![p].mode = <<perm>>]

Chgrp(fsv, p, gid) == [fsv EXCEPT ![p].gid = gid]

\* os.RemoveAll: p and everything below it goes; a metadata file named
\* directly goes alone
RemoveAll(fsv, p) ==
    [q \in {d \in DOMAIN fsv : ~IsUnder(d, p)} |->
        IF p = getMetaDataPath(q) THEN [fsv[q] EXCEPT !.md = NoMd] ELSE fsv[q]]

\* ioutil.ReadDir(BasePath): the immediate subdirectories, in some fixed order
IsEntry(base, p) ==
    /\ p # base
    /\ IsUnder(p, base)
    /\ Len(Split(p, <<>>, <<>>)) = Len(Split(base, <<>>, <<>>)) + 1

RECURSIVE SetToSeq(_)
SetToSeq(S) ==
    IF S = {} THEN <<>>
    ELSE LET x == CHOOSE y \in S : TRUE IN <<x>> \o SetToSeq(S \ {x})

ReadDir(fsv, base) == SetToSeq({p \in DOMAIN fsv : IsEntry(base, p)})


(***************************************************************************)
(* GID allocator (gidallocator.Allocator over allocator.MinMaxAllocator),  *)
(* the capability Provision and Delete consume.  One table per class,      *)
(* created on the class's first use and filled by the reclaimer.           *)
(***************************************************************************)
NoTable == [init |-> FALSE, used |-> {}]

\* MinMaxAllocator.Allocate(i) on a table ranging over 0..AbsoluteGidMax
TableAllocate(used, gid) ==
    IF gid < 0 \/ gid > AbsoluteGidMax THEN [used |-> used, err |-> "ErrOutOfRange"]
    ELSE IF gid \in used THEN [used |-> used, err |-> "ErrConflict"]
    ELSE [used |-> used \cup {gid}, err |-> ""]

\* a loop body that takes the GID of every class's metadata
ReclaimEntryAnyClass(fsv, classname, used, mddir) ==
    LET r == readVolumeMetadata(fsv, mddir, "none")
        md == r.md
    IN IF r.err # "" THEN used
       ELSE IF md = NoMd THEN used
       ELSE IF md.GID = <<>> THEN used
       ELSE IF ~Atoi(md.GID).ok THEN used
       ELSE TableAllocate(used, Atoi(md.GID).val).used

\* the body of Reclaim's loop for one directory entry
ReclaimEntry(fsv, classname, used, mddir) ==
    LET r == readVolumeMetadata(fsv, mddir, "none")
        md == r.md
    IN IF r.err # "" THEN used
       ELSE IF md = NoMd THEN used
       ELSE IF md.GID = <<>> THEN used
       ELSE IF md.StorageClassName # classname THEN used
       ELSE IF ~Atoi(md.GID).ok THEN used
       ELSE TableAllocate(used, Atoi(md.GID).val).used

\* a scan that gives up at the first entry whose metadata cannot be read
RECURSIVE ReclaimLoopFailFast(_, _, _, _)
ReclaimLoopFailFast(fsv, classname, used, entries) ==
    IF entries = <<>> THEN used
    ELSE IF readVolumeMetadata(fsv, Head(entries), "none").err # "" THEN used
    ELSE ReclaimLoopFailFast(fsv, classname,
                             ReclaimEntry(fsv, classname, used, Head(entries)),
                             Tail(entries))

RECURSIVE ReclaimLoop(_, _, _, _)
ReclaimLoop(fsv, classname, used, entries) ==
    IF entries = <<>> THEN used
    ELSE ReclaimLoop(fsv, classname, ReclaimEntry(fsv, classname, used, Head(entries)),
                     Tail(entries))

\* fileSystemReclaimer.Reclaim: the table after the scan, and the error
\* returned (only a failing ReadDir returns one)
Reclaim(fsv, classname, used, entries, fault) ==
    IF fault = "readdir" THEN [used |-> used, err |-> "ReadDirError"]
    ELSE [used |-> ReclaimLoop(fsv, classname, used, entries), err |-> ""]

\* Allocator.getGidTable: the class's table, built by the reclaimer on first use
getGidTable(fsv, tables, class) ==
    IF tables[class].init THEN tables[class].used
    ELSE Reclaim(fsv, class, {}, ReadDir(fsv, mountpoint), "none").used

FreeGids(used) == {g \in GidMin..GidMax : g \notin used}

\* Allocator.AllocateNext: the lowest GID of the class's range that is not in use
AllocateNext(fsv, tables, class, fault) ==
    LET used == getGidTable(fsv, tables, class)
        free == FreeGids(used)
        g == CHOOSE x \in free : \A y \in free : x <= y
    IN IF fault = "alloc" THEN [tables |-> tables, gid |-> NoGid, err |-> "AllocateError"]
       ELSE IF free = {}
            THEN [tables |-> [tables EXCEPT ![class] = [init |-> TRUE, used |-> used]],
                  gid |-> NoGid, err |-> "AllocateError"]
       ELSE [tables |-> [tables EXCEPT ![class] = [init |-> TRUE, used |-> used \cup {g}]],
             gid |-> g, err |-> ""]

\* Allocator.Release: frees the GID of the volume's annotation, if it has one
Release(fsv, tables, volume, fault) ==
    IF fault = "release" THEN [tables |-> tables, err |-> "ReleaseError"]
    ELSE IF volume.gid = NoGid THEN [tables |-> tables, err |-> ""]
    ELSE [tables |-> [tables EXCEPT ![volume.class] =
                        [init |-> TRUE,
                         used |-> getGidTable(fsv, tables, volume.class) \ {volume.gid}]],
          err |-> ""]


(***************************************************************************)
(* Path translation and directory naming.                                  *)
(***************************************************************************)
reuseVolumesOption(options) ==
    IF "reuseVolumes" \in DOMAIN options.Parameters
    THEN LET b == ParseBool(options.Parameters["reuseVolumes"])
         IN IF b.ok THEN [ok |-> TRUE, val |-> b.val] ELSE [ok |-> FALSE, val |-> FALSE]
    ELSE [ok |-> TRUE, val |-> FALSE]

getDirectoryName(options) ==
    LET reuseVolumes == reuseVolumesOption(options)
        pfx == IF "volumePrefix" \in DOMAIN options.Parameters
               THEN options.Parameters["volumePrefix"] ELSE <<>>
        prefix == IF pfx # <<>> THEN pfx \o <<"-">> ELSE <<>>
    IN IF ~reuseVolumes.ok THEN [ok |-> FALSE, val |-> <<>>]
       ELSE IF reuseVolumes.val
            THEN [ok |-> TRUE,
                  val |-> prefix \o options.PVCName \o <<"-">> \o options.PVCNamespace]
       ELSE [ok |-> TRUE, val |-> options.PVCName \o <<"-">> \o options.PVName]

getLocalPath(options) ==
    LET dirname == getDirectoryName(options)
    IN IF ~dirname.ok THEN [ok |-> FALSE, val |-> <<>>]
       ELSE [ok |-> TRUE, val |-> Join(mountpoint, dirname.val)]

\* the exported root: the mount source without the "<server>:" prefix
sourcePath == Clean(ReplaceFirst(source, dnsName \o <<":">>))

getRemotePath(options) ==
    LET dirname == getDirectoryName(options)
    IN IF ~dirname.ok THEN [ok |-> FALSE, val |-> <<>>]
       ELSE [ok |-> TRUE, val |-> Join(sourcePath, dirname.val)]

getLocalPathToDelete(nfs) ==
    IF nfs.server # dnsName THEN [ok |-> FALSE, val |-> <<>>]
    ELSE IF ~HasPrefix(nfs.path, sourcePath) THEN [ok |-> FALSE, val |-> <<>>]
    ELSE [ok |-> TRUE, val |-> Join(mountpoint, ReplaceFirst(nfs.path, sourcePath))]

(***************************************************************************)
(* Provision.                                                              *)
(***************************************************************************)
\* volumeExists: os.Stat of the path; every path of the model is a directory
volumeExists(fsv, path, fault) ==
    IF fault = "stat" THEN [exists |-> FALSE, gid |-> 0, err |-> "StatError"]
    ELSE IF path \notin DOMAIN fsv THEN [exists |-> FALSE, gid |-> 0, err |-> ""]
    ELSE [exists |-> TRUE, gid |-> fsv[path].gid, err |-> ""]

\* a validation that compares the class only
validatePreexistingVolumeClassOnly(options, md, existingGID) ==
    IF md = NoMd THEN "MissingMetadata"
    ELSE IF md.StorageClassName # options.Class THEN "OwnershipMismatch"
    ELSE IF md.GID # <<>> /\ existingGID # GidAsUInt(md).val THEN "GIDInconsistency"
    ELSE ""

validatePreexistingVolume(options, md, existingGID) ==
    IF md = NoMd THEN "MissingMetadata"
    ELSE IF md.StorageClassName # options.Class THEN "OwnershipMismatch"
    ELSE IF md.PVCName # options.PVCName \/ md.PVCNamespace # options.PVCNamespace
         THEN "OwnershipMismatch"
    ELSE IF md.GID # <<>> /\ existingGID # GidAsUInt(md).val THEN "GIDInconsistency"
    ELSE ""

\* a create step that leaves the directory behind when chgrp fails
createVolumeNoRollback(fsv, path, gid, fault) ==
    LET perm == IF gid # NoGid THEN "2771" ELSE "0777"
        made == MkdirAll(fsv, path, perm)
        moded == Chmod(made, path, perm)
    IN IF fault = "mkdir" THEN [fs |-> fsv, err |-> "MkdirError"]
       ELSE IF fault = "chmod" THEN [fs |-> RemoveAll(made, path), err |-> "ChmodError"]
       ELSE IF gid # NoGid
            THEN IF fault = "chgrp"
                 THEN [fs |-> moded, err |-> "ChgrpError"]
                 ELSE [fs |-> Chgrp(moded, path, gid), err |-> ""]
       ELSE [fs |-> moded, err |-> ""]

\* a createVolume that leaves the mode to MkdirAll and the umask
createVolumeNoChmod(fsv, path, gid, fault) ==
    LET perm == IF gid # NoGid THEN "2771" ELSE "0777"
        made == MkdirAll(fsv, path, perm)
    IN IF fault = "mkdir" THEN [fs |-> fsv, err |-> "MkdirError"]
       ELSE IF fault = "chmod" THEN [fs |-> RemoveAll(made, path), err |-> "ChmodError"]
       ELSE IF gid # NoGid
            THEN IF fault = "chgrp"
                 THEN [fs |-> RemoveAll(made, path), err |-> "ChgrpError"]
                 ELSE [fs |-> Chgrp(made, path, gid), err |-> ""]
       ELSE [fs |-> made, err |-> ""]

\* createVolume: MkdirAll, Chmod, chgrp; a failing Chmod or chgrp removes the path
createVolume(fsv, path, gid, fault) ==
    LET perm == IF gid # NoGid THEN "2771" ELSE "0777"
        made == MkdirAll(fsv, path, perm)
        moded == Chmod(made, path, perm)
    IN IF fault = "mkdir" THEN [fs |-> fsv, err |-> "MkdirError"]
       ELSE IF fault = "chmod" THEN [fs |-> RemoveAll(made, path), err |-> "ChmodError"]
       ELSE IF gid # NoGid
            THEN IF fault = "chgrp"
                 THEN [fs |-> RemoveAll(moded, path), err |-> "ChgrpError"]
                 ELSE [fs |-> Chgrp(moded, path, gid), err |-> ""]
       ELSE [fs |-> moded, err |-> ""]

\* what a Provision call returns and leaves behind
Outcome(fsv, tables, res, gid, created, volume) ==
    [fs |-> fsv, tables |-> tables, res |-> res, gid |-> gid, created |-> created,
     volume |-> volume]

\* the published PersistentVolume: server, remote path, class, GID annotation
Publish(options, gid) ==
    [server |-> dnsName, path |-> getRemotePath(options).val, class |-> options.Class,
     gid |-> gid]

\* a reuse branch that allocates a new GID for the directory it found
ProvisionExistingReallocates(options, volumePath, existingGid, fault) ==
    LET r == readVolumeMetadata(fs, volumePath, fault)
        v == validatePreexistingVolume(options, r.md, existingGid)
        a == AllocateNext(fs, gidTable, options.Class, "none")
    IN IF r.err # "" THEN Outcome(fs, gidTable, r.err, NoGid, FALSE, NoVolume)
       ELSE IF v # "" THEN Outcome(fs, gidTable, v, NoGid, FALSE, NoVolume)
       ELSE IF a.err # "" THEN Outcome(fs, a.tables, a.err, NoGid, FALSE, NoVolume)
       ELSE Outcome(fs, a.tables, "ok", a.gid, FALSE, Publish(options, a.gid))

\* a reuse branch that relies on validatePreexistingVolume for the GID
ProvisionExistingTrustsValidation(options, volumePath, existingGid, fault) ==
    LET r == readVolumeMetadata(fs, volumePath, fault)
        v == validatePreexistingVolume(options, r.md, existingGid)
    IN IF r.err # "" THEN Outcome(fs, gidTable, r.err, NoGid, FALSE, NoVolume)
       ELSE IF v # "" THEN Outcome(fs, gidTable, v, NoGid, FALSE, NoVolume)
       ELSE IF r.md.GID # <<>>
            THEN Outcome(fs, gidTable, "ok", existingGid, FALSE, Publish(options, existingGid))
       ELSE Outcome(fs, gidTable, "ok", NoGid, FALSE, Publish(options, NoGid))

\* Provision, the branch for an existing directory (lines 174-208)
ProvisionExisting(options, volumePath, existingGid, fault) ==
    LET r == readVolumeMetadata(fs, volumePath, fault)
        md == r.md
        v == validatePreexistingVolume(options, md, existingGid)
        mdGid == Atoi(md.GID)
    IN IF r.err # "" THEN Outcome(fs, gidTable, r.err, NoGid, FALSE, NoVolume)
       ELSE IF v # "" THEN Outcome(fs, gidTable, v, NoGid, FALSE, NoVolume)
       ELSE IF md.GID # <<>>
            THEN IF ~mdGid.ok THEN Outcome(fs, gidTable, "InvalidGID", NoGid, FALSE, NoVolume)
                 ELSE IF existingGid = mdGid.val
                      THEN Outcome(fs, gidTable, "ok", existingGid, FALSE,
                                   Publish(options, existingGid))
                 ELSE Outcome(fs, gidTable, "GIDInconsistency", NoGid, FALSE, NoVolume)
       ELSE Outcome(fs, gidTable, "ok", NoGid, FALSE, Publish(options, NoGid))

\* the gidallocate parameter, looked up by lower-cased key (lines 210-224)
gidAllocateOption(options) ==
    LET keys == {k \in DOMAIN options.Parameters : ToLower(k) = "gidallocate"}
    IN IF keys = {} THEN [ok |-> TRUE, val |-> TRUE]
       ELSE ParseBool(options.Parameters[CHOOSE k \in keys : TRUE])

\* Provision, the branch that creates the directory (lines 210-252)
ProvisionCreate(options, volumePath, reuseVolumes, fault) ==
    LET gidAllocate == gidAllocateOption(options)
        a == IF gidAllocate.val
             THEN AllocateNext(fs, gidTable, options.Class, fault)
             ELSE [tables |-> gidTable, gid |-> NoGid, err |-> ""]
        c == createVolume(fs, volumePath, a.gid, fault)
        gidstr == IF a.gid # NoGid THEN Itoa(a.gid) ELSE <<>>
        owned == [c.fs EXCEPT ![volumePath].volume = Publish(options, a.gid),
                              ![volumePath].reuse = reuseVolumes]
        w == writeVolumeMetadata(owned, volumePath,
                 volumeMetadata(gidstr, options.PVCName, options.PVCNamespace, options.Class),
                 fault)
        created == volumePath \notin DOMAIN fs
    IN IF ~gidAllocate.ok THEN Outcome(fs, gidTable, "InvalidParameter", NoGid, FALSE, NoVolume)
       ELSE IF a.err # "" THEN Outcome(fs, a.tables, a.err, NoGid, FALSE, NoVolume)
       ELSE IF c.err # "" THEN Outcome(c.fs, a.tables, c.err, a.gid, FALSE, NoVolume)
       ELSE IF reuseVolumes
            THEN Outcome(w.fs, a.tables, "ok", a.gid, created, Publish(options, a.gid))
       ELSE Outcome(owned, a.tables, "ok", a.gid, created, Publish(options, a.gid))

\* efsProvisioner.Provision
ProvisionOutcome(options, fault) ==
    LET lp == getLocalPath(options)
        reuseVolumes == reuseVolumesOption(options)
        ve == IF reuseVolumes.val THEN volumeExists(fs, lp.val, fault)
              ELSE [exists |-> FALSE, gid |-> 0, err |-> ""]
    IN IF ~lp.ok THEN Outcome(fs, gidTable, "InvalidParameter", NoGid, FALSE, NoVolume)
       ELSE IF ve.err # "" THEN Outcome(fs, gidTable, ve.err, NoGid, FALSE, NoVolume)
       ELSE IF ve.exists THEN ProvisionExisting(options, lp.val, ve.gid, fault)
       ELSE ProvisionCreate(options, lp.val, reuseVolumes.val, fault)


(***************************************************************************)
(* Delete.                                                                 *)
(***************************************************************************)
\* volumes another instance published: another server, an exported root
\* that only shares its first characters with ours, an unrelated root
ForeignVolumes ==
    {[server |-> <<"other">>, path |-> <<"/", "export", "/", "b", "-", "pv1">>,
      class |-> "c1", gid |-> NoGid],
     [server |-> dnsName, path |-> <<"/", "export", "2", "/", "b", "-", "pv1">>,
      class |-> "c1", gid |-> NoGid],
     [server |-> dnsName, path |-> <<"/", "export", "b", "-", "pv1">>,
      class |-> "c1", gid |-> NoGid],
     [server |-> dnsName, path |-> <<"/", "data", "/", "b", "-", "pv1">>,
      class |-> "c1", gid |-> NoGid]}

\* efsProvisioner.Delete: release the GID, translate the path, remove the tree
DeleteOutcome(volume, fault) ==
    LET rel == Release(fs, gidTable, volume, fault)
        lp == getLocalPathToDelete(volume)
    IN IF rel.err # ""
       THEN [fs |-> fs, tables |-> gidTable, res |-> rel.err, removed |-> <<>>]
       ELSE IF ~lp.ok
            THEN [fs |-> fs, tables |-> rel.tables, res |-> "PathMismatch", removed |-> <<>>]
       ELSE IF fault = "remove"
            THEN [fs |-> fs, tables |-> rel.tables, res |-> "RemoveError", removed |-> <<>>]
       ELSE [fs |-> RemoveAll(fs, lp.val), tables |-> rel.tables, res |-> "ok",
             removed |-> lp.val]

(***************************************************************************)
(* State machine: requests run one at a time, each to completion.          *)
(***************************************************************************)
\* the steps of Provision that can fail for a request
ProvisionFaults(options) ==
    IF ~getLocalPath(options).ok \/ ~gidAllocateOption(options).ok THEN {"none"}
    ELSE IF reuseVolumesOption(options).val
    THEN IF getLocalPath(options).val \in DOMAIN fs
         THEN {"none", "stat", "readmd"}
         ELSE {"none", "stat", "alloc", "mkdir", "chmod", "chgrp", "writemd"}
    ELSE {"none", "alloc", "mkdir", "chmod", "chgrp"}

\* the steps of Delete that can fail for a volume
DeleteFaults(volume) ==
    {"none"} \cup (IF volume.gid # NoGid THEN {"release"} ELSE {})
             \cup (IF getLocalPathToDelete(volume).ok THEN {"remove"} ELSE {})

\* the volumes a Delete request can name: the one published for an existing
\* directory, or one of another instance
Volumes == {fs[p].volume : p \in DOMAIN fs} \cup ForeignVolumes

NoRequest == [op |-> "Init", res |-> "", req |-> NoVolume, volume |-> NoVolume]

Init ==
    /\ fs = [p \in {} |-> NewDir("")]
    /\ gidTable = [c \in Classes |-> NoTable]
    /\ usedIds = {}
    /\ restarts = 0
    /\ last = NoRequest
    /\ issued = {}
    /\ inflight = {}

\* one Provision request, run to completion
ProvisionRequest(options, fault) ==
    \E o \in {ProvisionOutcome(options, fault)} :
       /\ Cardinality(DOMAIN o.fs) <= MaxDirs
       /\ fs' = o.fs
       /\ gidTable' = o.tables
       /\ last' = [op |-> "Provision", res |-> o.res, req |-> options,
                   volume |-> o.volume, created |-> o.created]
       /\ UNCHANGED <<restarts, inflight>>

Provision(options, fault) ==
    /\ ProvisionRequest(options, fault)
    /\ UNCHANGED <<usedIds, issued>>

\* one Delete request, run to completion
DeleteRequest(volume, fault) ==
    \E o \in {DeleteOutcome(volume, fault)} :
       /\ fs' = o.fs
       /\ gidTable' = o.tables
       /\ last' = [op |-> "Delete", res |-> o.res, req |-> volume, volume |-> NoVolume]
       /\ UNCHANGED <<usedIds, restarts, inflight>>

Delete(volume, fault) ==
    /\ DeleteRequest(volume, fault)
    /\ UNCHANGED issued

Next ==
    \/ \E options \in VolumeOptions : \E fault \in ProvisionFaults(options) :
          Provision(options, fault)
    \/ \E volume \in Volumes : \E fault \in DeleteFaults(volume) : Delete(volume, fault)

\* one process lifetime: Provision and Delete requests in any order
Spec == Init /\ [][Next]_vars

\* the process exits and starts again: the allocation tables are lost, the
\* directories stay
Restart ==
    /\ restarts < MaxRestarts
    /\ restarts' = restarts + 1
    /\ gidTable' = [c \in Classes |-> NoTable]
    /\ last' = [NoRequest EXCEPT !.op = "Restart"]
    /\ UNCHANGED <<fs, usedIds, issued, inflight>>

OwnVolumes == {fs[p].volume : p \in DOMAIN fs}

RestartOptions ==
    {Options(<<"b">>, <<"n">>, "c1", <<"pv1">>, NoParameters),
     Options(<<"b">>, <<"n">>, "c1", <<"pv2">>, NoParameters),
     Options(<<"b">>, <<"n">>, "c1", <<"pv2">>, ReuseParameters),
     Options(<<"a", "-", "b">>, <<"n">>, "c1", <<"pv2">>, ReuseParameters)}

NextRestart ==
    \/ \E options \in RestartOptions :
          \E fault \in ProvisionFaults(options) \cap {"none", "chgrp", "writemd"} :
             Provision(options, fault)
    \/ \E volume \in OwnVolumes : Delete(volume, "none")
    \/ Restart

\* several process lifetimes over the same file system
SpecRestart == Init /\ [][NextRestart]_vars

\* a Provision request, recording the volume identifier it was given
ProvisionTracked(options, fault) ==
    /\ ProvisionRequest(options, fault)
    /\ usedIds' = usedIds \cup {options.PVName}
    /\ UNCHANGED issued

NextIds ==
    \/ \E options \in EphemeralOptions \cup ReuseOptions : ProvisionTracked(options, "none")
    \/ \E volume \in OwnVolumes : Delete(volume, "none")

\* one process lifetime, with the volume identifiers seen so far
SpecIds == Init /\ [][NextIds]_vars

\* a Provision request, recording the volume it published with a GID
ProvisionIssued(options, fault) ==
    /\ ProvisionRequest(options, fault)
    /\ issued' = IF last'.res = "ok" /\ last'.volume.gid # NoGid
                 THEN issued \cup {last'.volume} ELSE issued
    /\ UNCHANGED usedIds

\* a Delete request, recording that it released the volume's GID
DeleteIssued(volume, fault) ==
    /\ DeleteRequest(volume, fault)
    /\ issued' = IF last'.res # "ReleaseError" THEN issued \ {volume} ELSE issued

NextIssue ==
    \/ \E options \in EphemeralOptions :
          \E fault \in ProvisionFaults(options) \cap {"none", "alloc", "chgrp"} :
             ProvisionIssued(options, fault)
    \/ \E volume \in OwnVolumes : \E fault \in DeleteFaults(volume) :
          DeleteIssued(volume, fault)

\* one process lifetime of ephemeral requests, with the volumes whose GID
\* no Delete has released yet
SpecIssue == Init /\ [][NextIssue]_vars

(***************************************************************************)
(* Delete on its own: the volume of a Delete request is whatever the       *)
(* PersistentVolume object says, so its NFS path can be the exported root  *)
(* itself or hold ".." segments.                                           *)
(***************************************************************************)
RootVolumes ==
    {[server |-> dnsName, path |-> sourcePath, class |-> "c1", gid |-> NoGid],
     [server |-> dnsName, path |-> sourcePath \o <<"/">>, class |-> "c1", gid |-> NoGid],
     [server |-> dnsName, path |-> sourcePath \o <<"/", "..">>, class |-> "c1",
      gid |-> NoGid],
     [server |-> dnsName, path |-> sourcePath \o <<"/", "..", "/", "x">>, class |-> "c1",
      gid |-> NoGid],
     [server |-> dnsName,
      path |-> sourcePath \o <<"/", "b", "-", "pv1", "/", "..", "/", "b", "-", "n">>,
      class |-> "c1", gid |-> NoGid]}

DeleteOptions ==
    {Options(<<"b">>, <<"n">>, "c1", <<"pv1">>, NoParameters),
     Options(<<"b">>, <<"n">>, "c1", <<"pv2">>, NoParameters),
     Options(<<"b">>, <<"n">>, "c1", <<"pv2">>, ReuseParameters)}

NextDelete ==
    \/ \E options \in DeleteOptions : Provision(options, "none")
    \/ \E volume \in OwnVolumes \cup ForeignVolumes \cup RootVolumes :
          \E fault \in DeleteFaults(volume) : Delete(volume, fault)

\* one process lifetime: directories are provisioned, and Delete requests
\* name them, volumes of other instances and the paths of RootVolumes
SpecDelete == Init /\ [][NextDelete]_vars

(***************************************************************************)
(* Requests running concurrently.  inflight holds the requests that have   *)
(* started and not returned, each with the statement it is at (pc) and its *)
(* local variable gid.  A step is one call on the file system or on the    *)
(* allocation table; the table's own operations are atomic.                *)
(***************************************************************************)
ConcurrentOptions ==
    {Options(<<"b">>, <<"n">>, "c1", <<"pv1">>, NoParameters),
     Options(<<"b">>, <<"n">>, "c1", <<"pv2">>, NoParameters),
     Options(<<"b">>, <<"n">>, "c1", <<"pv2">>, ReuseParameters)}

\* the directories the requests in flight work on
Targets == {r.path : r \in inflight}

Advance(r, pc, gid) == (inflight \ {r}) \cup {[r EXCEPT !.pc = pc, !.gid = gid]}

Return(r) == inflight \ {r}

\* the controller calls Provision for a claim no request in flight works on
BeginProvision(options) ==
    /\ Cardinality(inflight) < MaxInflight
    /\ getLocalPath(options).val \notin Targets
    /\ Cardinality(DOMAIN fs \cup Targets \cup {getLocalPath(options).val}) <= MaxDirs
    /\ inflight' = inflight \cup
          {[op |-> "Provision", req |-> options, path |-> getLocalPath(options).val,
            pc |-> IF reuseVolumesOption(options).val THEN "stat" ELSE "alloc",
            gid |-> NoGid]}
    /\ UNCHANGED <<fs, gidTable, usedIds, restarts, last, issued>>

\* lines 166-171: volumeExists
StatStep(r) ==
    /\ r.op = "Provision" /\ r.pc = "stat"
    /\ \E ve \in {volumeExists(fs, r.path, "none")} :
          inflight' = IF ve.exists THEN Advance(r, "validate", ve.gid)
                      ELSE Advance(r, "alloc", NoGid)
    /\ UNCHANGED <<fs, gidTable, usedIds, restarts, last, issued>>

\* lines 174-208: read the metadata, validate, return
ValidateStep(r) ==
    /\ r.op = "Provision" /\ r.pc = "validate"
    /\ inflight' = Return(r)
    /\ UNCHANGED <<fs, gidTable, usedIds, restarts, last, issued>>

\* lines 210-232: AllocateNext unless gidAllocate is false
AllocStep(r) ==
    /\ r.op = "Provision" /\ r.pc = "alloc"
    /\ \E a \in {IF gidAllocateOption(r.req).val
                  THEN AllocateNext(fs, gidTable, r.req.Class, "none")
                  ELSE [tables |-> gidTable, gid |-> NoGid, err |-> ""]} :
          /\ gidTable' = a.tables
          /\ inflight' = IF a.err # "" THEN Return(r) ELSE Advance(r, "mkdir", a.gid)
    /\ UNCHANGED <<fs, usedIds, restarts, last, issued>>

\* lines 297-305: os.MkdirAll
MkdirStep(r) ==
    /\ r.op = "Provision" /\ r.pc = "mkdir"
    /\ fs' = MkdirAll(fs, r.path, IF r.gid # NoGid THEN "2771" ELSE "0777")
    /\ inflight' = Advance(r, "chmod", r.gid)
    /\ UNCHANGED <<gidTable, usedIds, restarts, last, issued>>

\* what Provision does after createVolume when no GID is to be set
AfterCreate(r) == IF reuseVolumesOption(r.req).val THEN "writemd" ELSE "return"

\* lines 307-310: os.Chmod, which fails when the directory is gone
ChmodStep(r) ==
    /\ r.op = "Provision" /\ r.pc = "chmod"
    /\ IF r.path \in DOMAIN fs
       THEN /\ fs' = [Chmod(fs, r.path, IF r.gid # NoGid THEN "2771" ELSE "0777")
                         EXCEPT ![r.path].volume = Publish(r.req, r.gid),
                                ![r.path].reuse = reuseVolumesOption(r.req).val]
            /\ inflight' = IF r.gid # NoGid THEN Advance(r, "chgrp", r.gid)
                           ELSE Advance(r, AfterCreate(r), r.gid)
       ELSE /\ fs' = RemoveAll(fs, r.path)
            /\ inflight' = Return(r)
    /\ UNCHANGED <<gidTable, usedIds, restarts, last, issued>>

\* lines 312-319: chgrp, which fails when the directory is gone
ChgrpStep(r) ==
    /\ r.op = "Provision" /\ r.pc = "chgrp"
    /\ IF r.path \in DOMAIN fs
       THEN /\ fs' = Chgrp(fs, r.path, r.gid)
            /\ inflight' = Advance(r, AfterCreate(r), r.gid)
       ELSE /\ fs' = RemoveAll(fs, r.path)
            /\ inflight' = Return(r)
    /\ UNCHANGED <<gidTable, usedIds, restarts, last, issued>>

\* lines 244-252: writeVolumeMetadata, its error ignored
WriteMetadataStep(r) ==
    /\ r.op = "Provision" /\ r.pc = "writemd"
    /\ fs' = IF r.path \in DOMAIN fs
             THEN writeVolumeMetadata(fs, r.path,
                      volumeMetadata(IF r.gid # NoGid THEN Itoa(r.gid) ELSE <<>>,
                                     r.req.PVCName, r.req.PVCNamespace, r.req.Class),
                      "none").fs
             ELSE fs
    /\ inflight' = Advance(r, "return", r.gid)
    /\ UNCHANGED <<gidTable, usedIds, restarts, last, issued>>

\* lines 255-293: build the PersistentVolume and return it
ReturnStep(r) ==
    /\ r.op = "Provision" /\ r.pc = "return"
    /\ inflight' = Return(r)
    /\ UNCHANGED <<fs, gidTable, usedIds, restarts, last, issued>>

\* the controller calls Delete for a published volume no request in flight
\* works on
BeginDelete(volume) ==
    /\ Cardinality(inflight) < MaxInflight
    /\ volume # NoVolume
    /\ getLocalPathToDelete(volume).val \notin Targets
    /\ inflight' = inflight \cup
          {[op |-> "Delete", req |-> volume, path |-> getLocalPathToDelete(volume).val,
            pc |-> "release", gid |-> volume.gid]}
    /\ UNCHANGED <<fs, gidTable, usedIds, restarts, last, issued>>

\* lines 369-377: Release, then getLocalPathToDelete
ReleaseStep(r) ==
    /\ r.op = "Delete" /\ r.pc = "release"
    /\ gidTable' = Release(fs, gidTable, r.req, "none").tables
    /\ inflight' = IF getLocalPathToDelete(r.req).ok THEN Advance(r, "remove", r.gid)
                   ELSE Return(r)
    /\ UNCHANGED <<fs, usedIds, restarts, last, issued>>

\* lines 381-385: os.RemoveAll
RemoveStep(r) ==
    /\ r.op = "Delete" /\ r.pc = "remove"
    /\ fs' = RemoveAll(fs, r.path)
    /\ inflight' = Return(r)
    /\ UNCHANGED <<gidTable, usedIds, restarts, last, issued>>

NextConcurrent ==
    \/ \E options \in ConcurrentOptions : BeginProvision(options)
    \/ \E volume \in OwnVolumes : BeginDelete(volume)
    \/ \E r \in inflight : StatStep(r)
    \/ \E r \in inflight : ValidateStep(r)
    \/ \E r \in inflight : AllocStep(r)
    \/ \E r \in inflight : MkdirStep(r)
    \/ \E r \in inflight : ChmodStep(r)
    \/ \E r \in inflight : ChgrpStep(r)
    \/ \E r \in inflight : WriteMetadataStep(r)
    \/ \E r \in inflight : ReturnStep(r)
    \/ \E r \in inflight : ReleaseStep(r)
    \/ \E r \in inflight : RemoveStep(r)

SpecConcurrent == Init /\ [][NextConcurrent]_vars

(***************************************************************************)
(* The reuse branch on its own: a directory that exists with any group and *)
(* any metadata file, written by this provisioner or not.                  *)
(***************************************************************************)
\* GID texts a metadata file can hold: none, numbers, a leading zero, signs,
\* text that is no number
GidTexts ==
    {<<>>, Itoa(ProcessGid), Itoa(GidMin), Itoa(GidMin + 1), <<"0">> \o Itoa(GidMin),
     Itoa(0 - GidMin), <<"+", "0">>, <<"x">>, <<"1", "x">>}

DiskGids == {ProcessGid, GidMin, GidMin + 1}

ValidateOptions ==
    {Options(<<"b">>, <<"n">>, "c1", <<"pv2">>, ReuseParameters),
     Options(<<"b">>, <<"n">>, "c1", <<"pv2">>,
             [k \in {"reuseVolumes", "gidAllocate"} |->
                 IF k = "reuseVolumes" THEN <<"true">> ELSE <<"false">>])}

ExistingDirs ==
    {[NewDir(<<"2771">>) EXCEPT !.gid = g, !.md = m, !.reuse = TRUE] :
        g \in DiskGids,
        m \in {NoMd, CorruptMd}
               \cup {volumeMetadata(t, <<"b">>, <<"n">>, c) : t \in GidTexts, c \in Classes}}

InitValidate ==
    /\ \E d \in ExistingDirs : fs = [p \in {Join(mountpoint, <<"b", "-", "n">>)} |-> d]
    /\ gidTable = [c \in Classes |-> NoTable]
    /\ usedIds = {}
    /\ restarts = 0
    /\ last = NoRequest
    /\ issued = {}
    /\ inflight = {}

NextValidate ==
    \E options \in ValidateOptions : \E fault \in ProvisionFaults(options) :
       Provision(options, fault)

SpecValidate == InitValidate /\ [][NextValidate]_vars

(***************************************************************************)
(* Path translation on its own: any server, exported root and mount point, *)
(* the directory names getDirectoryName builds.                            *)
(***************************************************************************)
\* exported roots as the mount table can show them, each with its normal form
ExportedRoots ==
    {[raw |-> <<"/", "export">>, clean |-> <<"/", "export">>],
     [raw |-> <<"/", "export", "/">>, clean |-> <<"/", "export">>],
     [raw |-> <<"/">>, clean |-> <<"/">>],
     [raw |-> <<"/", "export", "/", "sub">>, clean |-> <<"/", "export", "/", "sub">>],
     [raw |-> <<"/", "a", "/", "..", "/", "export">>, clean |-> <<"/", "export">>]}

Servers == {<<"fs.example.com">>, <<"fs">>}

Mountpoints == {<<"/", "mnt", "/", "efs">>, <<"/", "mnt">>, <<"/", "persistentvolumes">>}

\* the fields of efsProvisioner that NewEFSProvisioner fills from the mount table
Config(dns, root, mp) ==
    [dnsName |-> dns, source |-> dns \o <<":">> \o root.raw, mountpoint |-> mp,
     root |-> root]

Configs == {Config(dns, root, mp) : dns \in Servers, root \in ExportedRoots, mp \in Mountpoints}

PathOptions ==
    {Options(<<"claim", "-", "a">>, <<"ns1">>, "c1", <<"pv1">>, ReuseParameters),
     Options(<<"b">>, <<"n">>, "c1", <<"pv1">>, NoParameters),
     Options(<<"b">>, <<"n">>, "c1", <<"pv1">>,
             [k \in {"reuseVolumes", "volumePrefix"} |->
                 IF k = "reuseVolumes" THEN <<"true">> ELSE <<"a">>]),
     Options(<<"b">>, <<"n">>, "c1", <<"pv1">>,
             [k \in {"reuseVolumes", "volumePrefix"} |->
                 IF k = "reuseVolumes" THEN <<"true">> ELSE <<"x", "/", "y">>]),
     Options(<<"b">>, <<"n">>, "c1", <<"pv1">>,
             [k \in {"reuseVolumes", "volumePrefix"} |->
                 IF k = "reuseVolumes" THEN <<"true">> ELSE <<"..", "/", "x">>])}

\* a source path that keeps the server prefix
sourcePathOfUnstripped(cfg) == Clean(cfg.source)

\* getLocalPath, getRemotePath and getLocalPathToDelete of a provisioner cfg
sourcePathOf(cfg) == Clean(ReplaceFirst(cfg.source, cfg.dnsName \o <<":">>))

localPathOf(cfg, dirname) == Join(cfg.mountpoint, dirname)

remotePathOf(cfg, dirname) == Join(sourcePathOf(cfg), dirname)

localPathToDeleteOf(cfg, nfs) ==
    IF nfs.server # cfg.dnsName THEN [ok |-> FALSE, val |-> <<>>]
    ELSE IF ~HasPrefix(nfs.path, sourcePathOf(cfg)) THEN [ok |-> FALSE, val |-> <<>>]
    ELSE [ok |-> TRUE,
          val |-> Join(cfg.mountpoint, ReplaceFirst(nfs.path, sourcePathOf(cfg)))]

\* the paths Provision computes for a request, and the path Delete computes
\* for the volume Provision publishes
Translate(cfg, options) ==
    \E dirname \in {getDirectoryName(options).val} :
       /\ last.op = "Init"
       /\ last' = [op |-> "Translate", res |-> "ok",
                   req |-> [cfg |-> cfg, options |-> options, dirname |-> dirname],
                   volume |-> [server |-> cfg.dnsName, path |-> remotePathOf(cfg, dirname),
                               class |-> options.Class, gid |-> NoGid],
                   local |-> localPathOf(cfg, dirname),
                   back |-> localPathToDeleteOf(cfg,
                               [server |-> cfg.dnsName,
                                path |-> remotePathOf(cfg, dirname)])]
       /\ UNCHANGED <<fs, gidTable, usedIds, restarts, issued, inflight>>

NextPaths == \E cfg \in Configs, options \in PathOptions : Translate(cfg, options)

SpecPaths == Init /\ [][NextPaths]_vars

(***************************************************************************)
(* Reclaim on its own: any directories under the mount root, any scan      *)
(* order, a table that may already hold entries.                           *)
(***************************************************************************)
ScanDirs == {Join(mountpoint, <<"d">> \o Itoa(i)) : i \in 1..MaxEntries}

MetadataSamples ==
    {NoMd, CorruptMd,
     volumeMetadata(<<>>, <<"b">>, <<"n">>, "c1"),
     volumeMetadata(Itoa(GidMin), <<"b">>, <<"n">>, "c1"),
     volumeMetadata(Itoa(GidMin + 1), <<"b">>, <<"n">>, "c1"),
     volumeMetadata(<<"1", "x">>, <<"b">>, <<"n">>, "c1"),
     volumeMetadata(Itoa(0 - GidMin), <<"b">>, <<"n">>, "c1"),
     volumeMetadata(Itoa(GidMin), <<"b">>, <<"n">>, "c2")}

ScanFileSystems ==
    UNION {[D -> {[NewDir(<<"0777">>) EXCEPT !.md = m] : m \in MetadataSamples}] :
             D \in SUBSET ScanDirs}

ScanOrders(S) ==
    {q \in [1..Cardinality(S) -> S] : \A i, j \in 1..Cardinality(S) : q[i] = q[j] => i = j}

InitReclaim ==
    /\ fs \in ScanFileSystems
    /\ \E used \in {{}, {GidMin + 1}} :
          gidTable = [c \in Classes |-> [init |-> FALSE, used |-> used]]
    /\ usedIds = {}
    /\ restarts = 0
    /\ last = NoRequest
    /\ issued = {}
    /\ inflight = {}

\* one call Reclaim(classname, gidtable), ReadDir listing the entries in some order
Scan(classname, entries, fault) ==
    \E r \in {Reclaim(fs, classname, gidTable[classname].used, entries, fault)} :
       /\ gidTable' = [gidTable EXCEPT ![classname] = [init |-> r.err = "", used |-> r.used]]
       /\ last' = [op |-> "Reclaim", res |-> IF r.err = "" THEN "ok" ELSE r.err,
                   req |-> [class |-> classname, entries |-> entries],
                   volume |-> NoVolume]
       /\ UNCHANGED <<fs, usedIds, restarts, issued, inflight>>

\* the scan runs once, on the table the allocator has just created
NextReclaim ==
    /\ last.op = "Init"
    /\ \E classname \in Classes, fault \in {"none", "readdir"} :
          \E entries \in ScanOrders({p \in DOMAIN fs : IsEntry(mountpoint, p)}) :
             Scan(classname, entries, fault)

SpecReclaim == InitReclaim /\ [][NextReclaim]_vars

(***************************************************************************)
(* Properties.  last describes the request that produced the current       *)
(* state; in an action formula last' describes the request of the step.    *)
(***************************************************************************)
IsReuse(options) == reuseVolumesOption(options).val

Target(options) == getLocalPath(options).val

IOErrors == {"StatError", "ReadMetadataError"}

\* a directory whose group owner is the GID allocated for it
HoldsGid(p) == fs[p].volume.gid # NoGid /\ fs[p].gid = fs[p].volume.gid

\* C1: within one process lifetime no two existing directories of the same
\* class have the same allocated GID as group owner.
C1_UniqueGidPerClass ==
    \A p, q \in DOMAIN fs :
        (p # q /\ HoldsGid(p) /\ HoldsGid(q) /\ fs[p].volume.class = fs[q].volume.class)
            => fs[p].gid # fs[q].gid

SameClaim(o1, o2) ==
    /\ o1.PVCName = o2.PVCName
    /\ o1.PVCNamespace = o2.PVCNamespace
    /\ o1.Class = o2.Class
    /\ getDirectoryName(o1) = getDirectoryName(o2)

\* C2: a reuse-mode Provision that follows a successful Provision of the same
\* claim succeeds, returns the same local and remote path and creates no
\* directory (unless its own stat or metadata read fails).
C2_ReuseIdempotent ==
    [][(/\ last.op = "Provision" /\ last.res = "ok" /\ IsReuse(last.req)
        /\ last'.op = "Provision" /\ IsReuse(last'.req)
        /\ SameClaim(last.req, last'.req)
        /\ last'.res \notin IOErrors)
       => (/\ last'.res = "ok"
           /\ DOMAIN fs' = DOMAIN fs
           /\ Target(last'.req) = Target(last.req)
           /\ last'.volume.path = last.volume.path)]_vars

MetadataDiffers(md, options) ==
    /\ md.kind = "md"
    /\ \/ md.StorageClassName # options.Class
       \/ md.PVCName # options.PVCName
       \/ md.PVCNamespace # options.PVCNamespace

\* C3: a reuse-mode Provision onto an existing directory whose metadata names
\* another class, claim name or namespace fails, with OwnershipMismatch unless
\* the stat or the metadata read itself fails, and leaves the file system and
\* the allocation tables as they were.
C3_MismatchRejected ==
    [][(/\ last'.op = "Provision" /\ IsReuse(last'.req)
        /\ Target(last'.req) \in DOMAIN fs
        /\ MetadataDiffers(fs[Target(last'.req)].md, last'.req))
       => (/\ last'.res \in {"OwnershipMismatch"} \cup IOErrors
           /\ fs' = fs
           /\ gidTable' = gidTable)]_vars

C3_Witness ==
    /\ last.op = "Provision" /\ last.res = "OwnershipMismatch"
    /\ Target(last.req) \in DOMAIN fs
    /\ MetadataDiffers(fs[Target(last.req)].md, last.req)

\* the remote path lies strictly below the exported root
IsDescendant(path) == Clean(path) # sourcePath /\ IsUnder(Clean(path), sourcePath)

\* C4: a Delete whose volume names another server, or a remote path that is
\* not a descendant of the exported root, returns an error and removes nothing.
C4_ForeignDeleteRejected ==
    [][(/\ last'.op = "Delete"
        /\ (last'.req.server # dnsName \/ ~IsDescendant(last'.req.path)))
       => (last'.res # "ok" /\ fs' = fs)]_vars

\* C5: every existing directory created with a GID has the group owner its
\* metadata records; one created in reuse mode has the metadata.
C5_GidMatchesMetadata ==
    \A p \in DOMAIN fs :
        fs[p].volume.gid # NoGid =>
            /\ fs[p].reuse => fs[p].md.kind = "md"
            /\ fs[p].md.kind = "md" => fs[p].md.GID = Itoa(fs[p].gid)

\* C7: a reuse-mode Provision onto an existing directory without a metadata
\* file fails, with MissingMetadata unless the stat or the read itself fails;
\* no GID is allocated and nothing is written.
C7_MissingMetadataRejected ==
    [][(/\ last'.op = "Provision" /\ IsReuse(last'.req)
        /\ Target(last'.req) \in DOMAIN fs
        /\ fs[Target(last'.req)].md = NoMd)
       => (/\ last'.res \in {"MissingMetadata"} \cup IOErrors
           /\ fs' = fs
           /\ gidTable' = gidTable)]_vars

C7_Witness ==
    /\ last.op = "Provision" /\ last.res = "MissingMetadata"
    /\ Target(last.req) \in DOMAIN fs
    /\ fs[Target(last.req)].md = NoMd

NewlyAllocated(class) ==
    IF gidTable'[class].init
    THEN gidTable'[class].used \ getGidTable(fs, gidTable, class)
    ELSE {}

\* C6: after a restart and the reclaim scan for a class, no allocation for the
\* class returns a GID that is the allocated group owner of an existing
\* directory of the class.
C6_NoReissueAfterRestart ==
    [][(restarts > 0 /\ last'.op = "Provision")
       => \A g \in NewlyAllocated(last'.req.Class) : \A p \in DOMAIN fs :
             ~(HoldsGid(p) /\ fs[p].gid = g /\ fs[p].volume.class = last'.req.Class)]_vars

\* the GIDs Reclaim has to insert: those of the class's entries whose GID
\* text is a number of the table's range
ValidGids(classname) ==
    {Atoi(fs[p].md.GID).val :
        p \in {q \in DOMAIN fs :
                 /\ IsEntry(mountpoint, q)
                 /\ fs[q].md.kind = "md"
                 /\ fs[q].md.StorageClassName = classname
                 /\ Atoi(fs[q].md.GID).ok
                 /\ Atoi(fs[q].md.GID).val >= 0
                 /\ Atoi(fs[q].md.GID).val <= AbsoluteGidMax}}

\* C9: a Reclaim whose directory listing succeeds returns success whatever
\* the entries hold and whatever their order; afterwards the table holds what
\* it held before plus every valid GID of the class's entries, each once.
C9_ReclaimContinues ==
    [][(last'.op = "Reclaim" /\ last'.res # "ReadDirError")
       => (/\ last'.res = "ok"
           /\ gidTable'[last'.req.class].used =
                 gidTable[last'.req.class].used \cup ValidGids(last'.req.class)
           /\ fs' = fs)]_vars

\* a scan that met an unreadable entry first, then two entries recording the
\* same GID for the class, and inserted that GID
C9_Witness ==
    /\ last.op = "Reclaim" /\ last.res = "ok"
    /\ Len(last.req.entries) = 3
    /\ fs[last.req.entries[1]].md = CorruptMd
    /\ fs[last.req.entries[2]].md = fs[last.req.entries[3]].md
    /\ fs[last.req.entries[2]].md.kind = "md"
    /\ fs[last.req.entries[2]].md.StorageClassName = last.req.class
    /\ fs[last.req.entries[2]].md.GID = Itoa(GidMin)
    /\ GidMin \in gidTable[last.req.class].used

\* C10: an ephemeral-mode Provision with a volume identifier no earlier
\* request carried targets a directory that does not exist yet.
C10_FreshNameNoCollision ==
    [][(/\ last'.op = "Provision"
        /\ reuseVolumesOption(last'.req).ok /\ ~IsReuse(last'.req)
        /\ last'.req.PVName \notin usedIds)
       => Target(last'.req) \notin DOMAIN fs]_vars

\* C11: an ephemeral-mode Provision is never issued a GID that an earlier
\* Provision of the class was issued and that no Delete of that earlier
\* volume has released since.
C11_NoReissueBeforeRelease ==
    [][(last'.op = "Provision" /\ last'.res = "ok" /\ last'.volume.gid # NoGid)
       => \A v \in issued :
             ~(v.class = last'.volume.class /\ v.gid = last'.volume.gid)]_vars

\* a name of one path component
SimpleName(d) == d # <<>> /\ \A i \in 1..Len(d) : d[i] \notin {"/", "..", "."}

\* the text of directory dir, a separator and name d
Below(dir, d) == IF dir = <<"/">> THEN dir \o d ELSE dir \o <<"/">> \o d

\* C12: for a source "<server>:<root>", a mount point M and a directory name
\* d of one component, the local path is M/d and the remote path is the
\* normal form of root followed by /d.
C12_PathsJoined ==
    (last.op = "Translate" /\ SimpleName(last.req.dirname))
        => /\ last.local = Below(last.req.cfg.mountpoint, last.req.dirname)
           /\ last.volume.path = Below(last.req.cfg.root.clean, last.req.dirname)

\* the example: fs.example.com:/export mounted at /mnt/efs, name claim-a-ns1
C12_Witness ==
    /\ last.op = "Translate"
    /\ last.req.cfg.source = <<"fs.example.com", ":", "/", "export">>
    /\ last.req.cfg.mountpoint = <<"/", "mnt", "/", "efs">>
    /\ last.req.dirname = <<"claim", "-", "a", "-", "ns1">>
    /\ last.local = <<"/", "mnt", "/", "efs", "/", "claim", "-", "a", "-", "ns1">>
    /\ last.volume.path = <<"/", "export", "/", "claim", "-", "a", "-", "ns1">>

\* C13: for every directory name Provision builds, translating the published
\* server and remote path back succeeds and gives the local path, and no
\* other directory name translates back to the same local path.
C13_RoundTrip ==
    last.op = "Translate"
        => /\ last.back.ok
           /\ last.back.val = last.local
           /\ \A o \in PathOptions :
                 getDirectoryName(o).val # last.req.dirname
                    => localPathToDeleteOf(last.req.cfg,
                          [server |-> last.req.cfg.dnsName,
                           path |-> remotePathOf(last.req.cfg, getDirectoryName(o).val)])
                       # last.back

\* C14: whatever the interleaving of the steps of concurrent requests for
\* different claims, no two existing directories of a class have the same
\* GID of the allocation range as group owner.
C14_UniqueGidUnderInterleaving ==
    \A p, q \in DOMAIN fs :
        (/\ p # q
         /\ fs[p].gid \in GidMin..GidMax
         /\ fs[p].gid = fs[q].gid)
            => fs[p].volume.class # fs[q].volume.class

\* the metadata a request has to leave when it publishes GID gid
ExpectedMetadata(options, gid) ==
    volumeMetadata(IF gid # NoGid THEN Itoa(gid) ELSE <<>>,
                   options.PVCName, options.PVCNamespace, options.Class)

\* C15: a successful reuse-mode Provision that created its directory leaves
\* metadata recording the request's GID, claim name, namespace and class (a
\* failed write makes the request fail), and an ephemeral-mode Provision
\* writes no metadata.
C15_MetadataWritten ==
    [][/\ (/\ last'.op = "Provision" /\ IsReuse(last'.req)
            /\ Target(last'.req) \notin DOMAIN fs
            /\ last'.res = "ok")
           => (/\ Target(last'.req) \in DOMAIN fs'
               /\ fs'[Target(last'.req)].md = ExpectedMetadata(last'.req, last'.volume.gid))
       /\ (/\ last'.op = "Provision"
            /\ reuseVolumesOption(last'.req).ok /\ ~IsReuse(last'.req))
           => \A p \in DOMAIN fs' :
                 fs'[p].md = IF p \in DOMAIN fs THEN fs[p].md ELSE NoMd]_vars

\* C16: a reuse-mode Provision that finds its directory leaves the allocation
\* tables unchanged whatever its gidAllocate parameter, and when it succeeds
\* the published volume has a GID annotation exactly when the metadata
\* records a GID, the annotation being that GID.
C16_ReuseKeepsTable ==
    [][(/\ last'.op = "Provision" /\ IsReuse(last'.req)
        /\ Target(last'.req) \in DOMAIN fs)
       => (/\ gidTable' = gidTable
           /\ last'.res = "ok"
                 => (/\ fs[Target(last'.req)].md.kind = "md"
                     /\ (last'.volume.gid # NoGid) = (fs[Target(last'.req)].md.GID # <<>>)
                     /\ fs[Target(last'.req)].md.GID # <<>>
                           => fs[Target(last'.req)].md.GID = Itoa(last'.volume.gid)))]_vars

\* a directory reused with the GID its metadata records
C16_Witness ==
    /\ last.op = "Provision" /\ IsReuse(last.req) /\ last.res = "ok"
    /\ ~last.created
    /\ last.volume.gid # NoGid
    /\ fs[Target(last.req)].md.GID = Itoa(last.volume.gid)
    /\ gidAllocateOption(last.req).val

\* the metadata records a GID that is not the directory's group
GidDiffers(md, gid) == md.GID # <<>> /\ ~(Atoi(md.GID).ok /\ Atoi(md.GID).val = gid)

\* C17: a reuse-mode Provision onto a directory whose metadata names the
\* request's class, claim and namespace but records a GID, numeric or not,
\* that is not the directory's group fails and publishes no volume.
C17_GidMismatchRejected ==
    [][(/\ last'.op = "Provision" /\ IsReuse(last'.req)
        /\ Target(last'.req) \in DOMAIN fs
        /\ fs[Target(last'.req)].md.kind = "md"
        /\ ~MetadataDiffers(fs[Target(last'.req)].md, last'.req)
        /\ GidDiffers(fs[Target(last'.req)].md, fs[Target(last'.req)].gid))
       => (/\ last'.res \in {"GIDInconsistency", "InvalidGID"} \cup IOErrors
           /\ last'.volume = NoVolume
           /\ fs' = fs)]_vars

\* a rejected directory whose metadata records text that is no number
C17_Witness ==
    /\ last.op = "Provision" /\ last.res \in {"GIDInconsistency", "InvalidGID"}
    /\ fs[Target(last.req)].md.kind = "md"
    /\ ~MetadataDiffers(fs[Target(last.req)].md, last.req)
    /\ ~Atoi(fs[Target(last.req)].md.GID).ok
    /\ fs[Target(last.req)].gid = ProcessGid

\* the step ran createVolume to its end: an ephemeral request, or a reuse
\* request that found no directory
CreateStep ==
    /\ last'.op = "Provision" /\ last'.res = "ok"
    /\ (~IsReuse(last'.req) \/ Target(last'.req) \notin DOMAIN fs)

\* C18: after a successful create step the directory has mode 0777 when no
\* GID was allocated and mode 0771 with the setgid bit and the allocated GID
\* as group when one was; a GID is allocated unless gidAllocate is false.
C18_CreatedModeAndGroup ==
    [][CreateStep =>
        (/\ (last'.volume.gid = NoGid) = ~gidAllocateOption(last'.req).val
         /\ IF last'.volume.gid = NoGid
            THEN fs'[Target(last'.req)].mode = <<"0777">>
            ELSE /\ fs'[Target(last'.req)].mode = <<"2771">>
                 /\ fs'[Target(last'.req)].gid = last'.volume.gid
                 /\ last'.volume.gid \in GidMin..GidMax)]_vars

\* a directory created without a GID next to one created with a GID
C18_Witness ==
    /\ last.op = "Provision" /\ last.res = "ok" /\ last.created
    /\ last.volume.gid = NoGid
    /\ fs[Target(last.req)].mode = <<"0777">>
    /\ \E q \in DOMAIN fs : fs[q].mode = <<"2771">> /\ HoldsGid(q)

\* an entry of the mount root whose metadata records a GID for the class
Records(p, classname) ==
    /\ IsEntry(mountpoint, p)
    /\ fs[p].md.kind = "md"
    /\ fs[p].md.StorageClassName = classname
    /\ fs[p].md.GID # <<>>
    /\ Atoi(fs[p].md.GID).ok
    /\ Atoi(fs[p].md.GID).val >= 0

\* C19: Reclaim(class, table) puts into the table the GID of every entry of
\* the mount root whose metadata names the class and records a number, puts
\* in nothing else (nothing from an entry without metadata, with an empty
\* GID or of another class), takes nothing out, leaves the other classes'
\* tables and the file system alone.
C19_ReclaimAddsExactly ==
    [][(last'.op = "Reclaim")
       => (/\ fs' = fs
           /\ gidTable[last'.req.class].used \subseteq gidTable'[last'.req.class].used
           /\ \A c \in Classes \ {last'.req.class} : gidTable'[c] = gidTable[c]
           /\ \A g \in gidTable'[last'.req.class].used \ gidTable[last'.req.class].used :
                 /\ last'.res = "ok"
                 /\ \E p \in DOMAIN fs :
                       Records(p, last'.req.class) /\ Atoi(fs[p].md.GID).val = g
           /\ last'.res = "ok" =>
                 \A p \in DOMAIN fs :
                    Records(p, last'.req.class)
                        => Atoi(fs[p].md.GID).val \in gidTable'[last'.req.class].used)]_vars

\* a scan for class c1 over an entry of c1 recording a GID, an entry of c2
\* recording another and an entry with an empty GID: only the first is added
C19_Witness ==
    /\ last.op = "Reclaim" /\ last.res = "ok" /\ last.req.class = "c1"
    /\ gidTable["c1"].used = {GidMin + 1}
    /\ \E p, q, r \in DOMAIN fs :
          /\ Records(p, "c1") /\ fs[p].md.GID = Itoa(GidMin + 1)
          /\ Records(q, "c2") /\ fs[q].md.GID = Itoa(GidMin)
          /\ fs[r].md.kind = "md" /\ fs[r].md.GID = <<>>

\* C20: a Provision that returns an error leaves every class's GID table
\* holding what it held before the call; a GID allocated before a failing
\* MkdirAll, Chmod or chgrp is released again.
C20_FailedProvisionKeepsTable ==
    [][(last'.op = "Provision" /\ last'.res # "ok")
       => \A c \in Classes :
             getGidTable(fs', gidTable', c) = getGidTable(fs, gidTable, c)]_vars

\* the directory a remote path names: the mount point followed by what
\* the normal form of the path has after the exported root
NamedDirectory(path) ==
    Below(mountpoint, SubSeq(Clean(path), Len(Below(sourcePath, <<>>)) + 1, Len(Clean(path))))

StrictlyBelow(p, dir) == p # dir /\ IsUnder(p, dir)

\* C21: a Delete that passes the reverse translation removes a path
\* strictly below the mount point, and every directory it removes or changes
\* is the directory the volume's remote path names, or lies below it.
C21_DeleteStaysBelowMount ==
    [][(last'.op = "Delete" /\ getLocalPathToDelete(last'.req).ok)
       => (/\ last'.res = "ok"
                 => StrictlyBelow(getLocalPathToDelete(last'.req).val, mountpoint)
           /\ \A p \in DOMAIN fs :
                 (p \notin DOMAIN fs' \/ fs'[p] # fs[p])
                     => (/\ IsDescendant(last'.req.path)
                         /\ IsUnder(p, NamedDirectory(last'.req.path))))]_vars

====
